---- MODULE Spec2Model ----
(***************************************************************************)
(* chemopt/zmat_optimisation.py: the optimisation driver `optimise`, the   *)
(* evaluation closure V, the convergence test _is_converged, the step      *)
(* function get_next_step, the structure builder get_new_zm and the output *)
(* rotation rename_existing.                                               *)
(*                                                                         *)
(* Numbers.  Python floats are modelled as fixed-point integers:           *)
(*   energies   in units of 1e-10 Hartree, as offsets from -1.0 Hartree;   *)
(*   Cartesian gradient components in units of 1e-6 Hartree/Angstrom.      *)
(* Exceptions.  A Python call either returns or raises; every modelled     *)
(* call yields a record whose field err is "none" or the exception name.   *)
(***************************************************************************)
EXTENDS Integers, Sequences, FiniteSets, TLC

VARIABLES
    \* a call of _is_converged(energies, grad_energy_X)
    c_energies, c_grad, c_ret,
    \* a call of get_next_step(grads_energy_C)
    s_deque, s_ret,
    \* a call of V(zmolecule)
    v_mol, v_calc, v_ret,
    \* the file system and a call of rename_existing(filepath)
    fs, fs_pc, fs_path, fs_before, fs_clobbered, writes,
    \* one run of optimise(zmolecule, ...)
    pc, err, calc_mode, ri,
    energies, structures, grads_energy_C, grad_energy_X, new_zm,
    n_evals, n_steps

conv_vars == <<c_energies, c_grad, c_ret>>
step_vars == <<s_deque, s_ret>>
v_vars == <<v_mol, v_calc, v_ret>>
fs_vars == <<fs, fs_pc, fs_path, fs_before, fs_clobbered, writes>>
opt_vars == <<pc, err, calc_mode, ri, energies, structures, grads_energy_C,
              grad_energy_X, new_zm, n_evals, n_steps>>
vars == <<conv_vars, step_vars, v_vars, fs_vars, opt_vars>>

(***************************************************************************)
(* Bounds of the model.                                                    *)
(***************************************************************************)
MaxEnergies == 3
MaxGradLen == 2
MaxDeque == 3
MaxAtoms == 4
MaxBackups == 2

(***************************************************************************)
(* Generic helpers.                                                        *)
(***************************************************************************)
Abs(x) == IF x < 0 THEN -x ELSE x

SeqsUpTo(S, lo, hi) == UNION {[1..k -> S] : k \in lo..hi}

\* Python's None and a numpy array are kept apart by a tag.
None == [kind |-> "None", val |-> <<>>]
Array(a) == [kind |-> "array", val |-> a]

(***************************************************************************)
(* _is_converged, lines 223-242.                                           *)
(***************************************************************************)
ETol == 100
GTol == 10

\* abs(grad_energy_X).max(): numpy reduces the flattened array; an empty
\* array raises ValueError, None raises TypeError in abs().
RECURSIVE AbsMaxFrom(_, _, _)
AbsMaxFrom(a, i, best) ==
    IF i > Len(a) THEN best
    ELSE AbsMaxFrom(a, i + 1, IF Abs(a[i]) > best THEN Abs(a[i]) ELSE best)

AbsMax(g) ==
    IF g.kind = "None" THEN [err |-> "TypeError", val |-> 0]
    ELSE IF Len(g.val) = 0 THEN [err |-> "ValueError", val |-> 0]
    ELSE [err |-> "none", val |-> AbsMaxFrom(g.val, 2, Abs(g.val[1]))]

is_converged_strictness_mutant(es, g, etol, gtol) ==
    IF Len(es) = 0 THEN [err |-> "none", val |-> FALSE]
    ELSE IF Len(es) = 1 THEN [err |-> "none", val |-> FALSE]
    ELSE IF ~(Abs(es[Len(es)] - es[Len(es) - 1]) <= etol)
         THEN [err |-> "none", val |-> FALSE]
    ELSE LET m == AbsMax(g)
         IN  IF m.err # "none" THEN [err |-> m.err, val |-> FALSE]
             ELSE [err |-> "none", val |-> m.val < gtol]

is_converged_short_history_mutant(es, g, etol, gtol) ==
    IF Len(es) = 0 THEN [err |-> "none", val |-> FALSE]
    ELSE LET prev == IF Len(es) = 1 THEN es[1] ELSE es[Len(es) - 1]
         IN  IF ~(Abs(es[Len(es)] - prev) < etol)
             THEN [err |-> "none", val |-> FALSE]
             ELSE LET m == AbsMax(g)
                  IN  IF m.err # "none" THEN [err |-> m.err, val |-> FALSE]
                      ELSE [err |-> "none", val |-> m.val < gtol]

\* `and` short-circuits: the gradient is only looked at when the energy
\* condition holds.
is_converged(es, g, etol, gtol) ==
    IF Len(es) = 0 THEN [err |-> "none", val |-> FALSE]
    ELSE IF Len(es) = 1 THEN [err |-> "none", val |-> FALSE]
    ELSE IF ~(Abs(es[Len(es)] - es[Len(es) - 1]) < etol)
         THEN [err |-> "none", val |-> FALSE]
    ELSE LET m == AbsMax(g)
         IN  IF m.err # "none" THEN [err |-> m.err, val |-> FALSE]
             ELSE [err |-> "none", val |-> m.val < gtol]

\* What a finished call left behind: "True", "False" or the exception.
RetStr(r) == IF r.err # "none" THEN r.err ELSE IF r.val THEN "True" ELSE "False"

EnergyVals == {-1, 0, ETol - 1, ETol}
GradVals == {0, GTol - 1, GTol, -GTol, -(GTol + 1)}

ConvEnergies == SeqsUpTo(EnergyVals, 0, MaxEnergies)
ConvGrads == {None} \cup {Array(a) : a \in SeqsUpTo(GradVals, 1, MaxGradLen)}

ConvIdle == c_energies = <<>> /\ c_grad = None /\ c_ret = "pending"

CallIsConverged ==
    /\ c_ret = "pending"
    /\ c_ret' = RetStr(is_converged(c_energies, c_grad, ETol, GTol))
    /\ UNCHANGED <<c_energies, c_grad>>

(***************************************************************************)
(* get_next_step, lines 245-289.                                           *)
(***************************************************************************)
\* The module's global names (imports and defs, lines 1-17, 77, 96, 108,
\* 159, 164, 176, 191, 219, 223, 245); reading any other global name
\* raises NameError.
ModuleGlobals ==
    {"inspect", "os", "datetime", "basename", "join", "normpath", "splitext",
     "deque", "np", "scipy", "convertor", "to_molden", "conf_defaults",
     "fixed_defaults", "calculate", "tabulate", "optimise", "_get_V_function",
     "_get_new_zm_f_generator", "_get_header", "_get_markdown",
     "_get_table_row", "rename_existing", "_get_footer", "_get_isostr",
     "_is_converged", "get_next_step"}

ReadGlobal(name) == IF name \in ModuleGlobals THEN "none" ELSE "NameError"

get_next_step(d) ==
    IF Len(d) # 2 THEN [err |-> "ValueError", step |-> <<>>]
    ELSE [err |-> ReadGlobal("next_step"), step |-> <<>>]

\* internal gradients, flattened, of a one-atom toy molecule
DequeGrads == {<<0, 0, 0>>, <<1, 0, 0>>, <<-2, 1, 0>>, <<3, -1, 2>>}

StepIdle == s_deque = <<>> /\ s_ret = "pending"

CallGetNextStep ==
    /\ s_ret = "pending"
    /\ LET r == get_next_step(s_deque)
       IN  s_ret' = IF r.err = "none" THEN "step" ELSE r.err
    /\ UNCHANGED s_deque

(***************************************************************************)
(* V, the closure returned by _get_V_function, lines 77-93.                *)
(*   zmolecule: [n |-> number of atoms, jac |-> which geometry Jacobian    *)
(*   get_grad_cartesian returns for it];                                   *)
(*   result of calculate: scfenergies[0] as an offset from -27.211 eV in   *)
(*   units of 1e-10 eV, grads[0] in units of 1e-6 Hartree/bohr.            *)
(***************************************************************************)
Min(a, b) == IF a < b THEN a ELSE b

Sgn(x) == IF x < 0 THEN -1 ELSE 1

\* round-toward-zero quotient, the fixed-point image of a float division
TruncDiv(a, b) == Sgn(a) * (Abs(a) \div b)

\* convertor(x, 'eV', 'hartree'): x / 27.211 ; convertor(1, 'bohr',
\* 'Angstrom'): 0.529.  Both factors are kept in thousandths.
EvPerHartreeMilli == 27211
AngstromPerBohrMilli == 529

ev_to_hartree(x) == TruncDiv(x * 1000, EvPerHartreeMilli)

per_bohr_to_per_angstrom(g) == TruncDiv(g * 1000, AngstromPerBohrMilli)

RECURSIVE SumTo(_, _)
\* F[1] + ... + F[k]
SumTo(F, k) == IF k = 0 THEN 0 ELSE F[k] + SumTo(F, k - 1)

\* zmolecule.get_grad_cartesian(as_function=False, drop_auto_dummies=True):
\* grad_X[c, a, j, k] = d(position component c of atom a) / d(internal
\* coordinate k of atom j), shape (3, n, n, 3).  The geometry library is
\* external; three Jacobians stand for it.
JacIds == {1, 2, 3}

grad_X(zm, c, a, j, k) ==
    CASE zm.jac = 1 -> 1
      [] zm.jac = 2 -> IF j <= a THEN c + k - 3 ELSE 0
      [] zm.jac = 3 -> IF c = k THEN a - j + 1 ELSE -1

\* np.sum(grad_energy_X.T[:, :, None, None] * grad_X, axis=(0, 1)), an
\* (n, 3) array indexed [atom j][coordinate k]
Contract(zm, gX) ==
    [j \in 1..zm.n |->
        [k \in 1..3 |->
            SumTo([c \in 1..3 |->
                     SumTo([a \in 1..zm.n |-> gX[a][c] * grad_X(zm, c, a, j, k)],
                           zm.n)],
                  3)]]

\* range(min(3, grad_energy_C.shape[0]))
gauge_rows(n) == Min(3, n)

gauge_slice_starts_after_diagonal(i) == i + 1

\* the slice i: of grad_energy_C[i, i:], as a 1-based first column
gauge_slice_start(i) == i

RECURSIVE GaugeLoop(_, _, _)
\* for i in range(rows): grad_energy_C[i, i:] = 0.   (i is 1-based here;
\* indexing a row the array does not have raises IndexError)
GaugeLoop(m, i, rows) ==
    IF i > rows THEN [err |-> "none", m |-> m]
    ELSE IF i > Len(m) THEN [err |-> "IndexError", m |-> m]
    ELSE GaugeLoop(
            [m EXCEPT ![i] = [k \in 1..3 |->
                                IF k >= gauge_slice_start(i) THEN 0 ELSE m[i][k]]],
            i + 1, rows)

NoVRet(e) == [err |-> e, energy |-> 0, grad_energy_X |-> <<>>,
              grad_energy_C |-> <<>>]

V(zm, result) ==
    IF result.err # "none" THEN NoVRet(result.err)
    ELSE LET energy == ev_to_hartree(result.scf)
             gX == [a \in 1..zm.n |->
                      [c \in 1..3 |-> per_bohr_to_per_angstrom(result.grads[a][c])]]
             g == GaugeLoop(Contract(zm, gX), 1, gauge_rows(zm.n))
         IN  IF g.err # "none" THEN NoVRet(g.err)
             ELSE [err |-> "none", energy |-> energy, grad_energy_X |-> gX,
                   grad_energy_C |-> g.m]

\* per-atom force vectors the external code may return (1e-6 Hartree/bohr)
GradVecs == {<<0, 0, 0>>, <<3, -5, 1>>, <<-2, 4, 7>>}
ScfVals == {0, -28}

Molecules == [n : 1..MaxAtoms, jac : JacIds]

CalcResults(n) ==
    {[err |-> "EvaluationFailed", scf |-> 0, grads |-> <<>>]}
    \cup [err : {"none"}, scf : ScfVals, grads : [1..n -> GradVecs]]

VIdle ==
    /\ v_mol = [n |-> 1, jac |-> 1]
    /\ v_calc = [err |-> "EvaluationFailed", scf |-> 0, grads |-> <<>>]
    /\ v_ret = NoVRet("pending")

CallV ==
    /\ v_ret.err = "pending"
    /\ v_ret' = V(v_mol, v_calc)
    /\ UNCHANGED <<v_mol, v_calc>>

(***************************************************************************)
(* The file system and rename_existing, lines 176-188.                     *)
(*   A path is a sequence of components; a component <<name, 0>> is the    *)
(*   name itself and <<name, i>>, i >= 1, is the string name + '_' + i.    *)
(*   fs maps each existing regular file to its content; a directory        *)
(*   exists while a file lies below it.                                    *)
(***************************************************************************)
IsPrefix(p, q) == Len(p) <= Len(q) /\ SubSeq(q, 1, Len(p)) = p

\* os.path.exists
exists(f, p) == \E q \in DOMAIN f : IsPrefix(p, q)

IsDir(f, p) == \E q \in DOMAIN f : IsPrefix(p, q) /\ q # p

FsRet(e, f, c) == [err |-> e, fs |-> f, clobbered |-> c]

\* os.rename(src, dst) on POSIX: a file silently replaces an existing file;
\* a directory cannot replace a file or a non-empty directory, nor a file a
\* directory.
os_rename(f, src, dst) ==
    IF ~exists(f, src) THEN FsRet("FileNotFoundError", f, FALSE)
    ELSE IF exists(f, dst) /\ (IsDir(f, src) \/ IsDir(f, dst))
         THEN FsRet("OSError", f, FALSE)
    ELSE LET under == {q \in DOMAIN f : IsPrefix(src, q)}
             rest(q) == SubSeq(q, Len(src) + 1, Len(q))
             kept == (DOMAIN f \ under) \ {dst}
             moved == {dst \o rest(q) : q \in under}
         IN  FsRet("none",
                   [q \in kept \cup moved |->
                       IF IsPrefix(dst, q)
                       THEN f[src \o SubSeq(q, Len(dst) + 1, Len(q))]
                       ELSE f[q]],
                   dst \in DOMAIN f)

\* normpath(filepath).split(os.path.sep)[0]: the FIRST component of the path
to_be_moved(filepath) == <<filepath[1]>>

\* (to_be_moved + '_{}').format
get_path(filepath, i) == <<<<filepath[1][1], i>>>>

RECURSIVE FindEnd(_, _, _)
\* lines 180-185; returns `end`, one past the first free suffix
FindEnd(f, filepath, end) ==
    IF ~exists(f, get_path(filepath, end)) THEN end + 1
    ELSE FindEnd(f, filepath, end + 1)

RECURSIVE ShiftLoop(_, _, _)
\* lines 186-187: for i in range(end - 1, 1, -1), from index i downwards
ShiftLoop(st, filepath, i) ==
    IF i <= 1 \/ st.err # "none" THEN st
    ELSE LET r == os_rename(st.fs, get_path(filepath, i - 1), get_path(filepath, i))
         IN  ShiftLoop(FsRet(r.err, r.fs, st.clobbered \/ r.clobbered),
                       filepath, i - 1)

rename_existing(f, filepath) ==
    IF ~exists(f, filepath) THEN FsRet("none", f, FALSE)
    ELSE LET end == FindEnd(f, filepath, 1)
             st == ShiftLoop(FsRet("none", f, FALSE), filepath, end - 1)
         IN  IF st.err # "none" THEN st
             ELSE LET r == os_rename(st.fs, to_be_moved(filepath),
                                     get_path(filepath, 1))
                  IN  FsRet(r.err, r.fs, st.clobbered \/ r.clobbered)

\* open(path, 'w') and a write: the directory of the path has to exist
open_w(f, p, content) ==
    IF Len(p) > 1 /\ ~exists(f, SubSeq(p, 1, Len(p) - 1))
    THEN FsRet("FileNotFoundError", f, FALSE)
    ELSE FsRet("none",
               [q \in DOMAIN f \cup {p} |-> IF q = p THEN content ELSE f[q]],
               p \in DOMAIN f)

\* the default output paths of optimise, lines 37-44, for base = "opt"
md_out == <<<<"opt.md", 0>>>>
molden_out == <<<<"opt.molden", 0>>>>
el_calc_input == <<<<"opt_el_calcs", 0>>, <<"opt.inp", 0>>>>

\* [md_out, molden_out, el_calc_input], line 45
OutPaths == <<md_out, molden_out, el_calc_input>>

\* What earlier runs may have left on disk: for each output, the output
\* itself and any of its numbered backups.  Every file has its own content.
Leftover(t, k) == <<OutPaths[t][1][1], k>>

LeftoverFile(t, k) == <<Leftover(t, k)>> \o Tail(OutPaths[t])

DiskOf(S) ==
    LET present == {tk \in (1..3) \X (0..MaxBackups) : tk[2] \in S[tk[1]]}
        paths == {LeftoverFile(tk[1], tk[2]) : tk \in present}
    IN  [q \in paths |->
            LET tk == CHOOSE x \in present : LeftoverFile(x[1], x[2]) = q
            IN  10 * tk[1] + tk[2]]

DiskStates == {DiskOf(S) : S \in [1..3 -> SUBSET (0..MaxBackups)]}

FsIdle ==
    /\ fs_pc = "idle"
    /\ fs_path = md_out
    /\ fs_before = fs
    /\ fs_clobbered = FALSE
    /\ writes = 0

\* a call rename_existing(filepath) from outside the driver
FsRename(filepath) ==
    /\ fs_pc = "idle"
    /\ LET r == rename_existing(fs, filepath)
       IN  /\ fs' = r.fs
           /\ fs_clobbered' = r.clobbered
           /\ fs_pc' = IF r.err = "none" THEN "renamed" ELSE "raised"
    /\ fs_before' = fs
    /\ fs_path' = filepath
    /\ UNCHANGED writes

MaxWrites == 2

\* the write that follows the rotation of a path the module writes itself:
\* open(md_out, 'w') of line 50, to_molden(buf=molden_out) of line 66
FsWrite ==
    /\ fs_pc = "renamed"
    /\ fs_path \in {md_out, molden_out}
    /\ writes < MaxWrites
    /\ LET r == open_w(fs, fs_path, 100 + writes)
       IN  /\ fs' = r.fs
           /\ fs_clobbered' = (fs_clobbered \/ r.clobbered)
           /\ fs_pc' = IF r.err = "none" THEN "idle" ELSE "raised"
    /\ writes' = writes + 1
    /\ UNCHANGED <<fs_path, fs_before>>

(***************************************************************************)
(* get_new_zm, the closure returned by _get_new_zm_f_generator,            *)
(* lines 96-105, and the driver optimise, lines 17-74.                     *)
(***************************************************************************)
\* def get_new_zm(p, previous_zmat), line 97
get_new_zm_params == 2

\* A call binds its positional arguments first (TypeError on a wrong
\* count); the body then reads C_rad, a name bound nowhere (line 98).
get_new_zm(args) ==
    IF Len(args) # get_new_zm_params
    THEN [err |-> "TypeError", zm |-> [n |-> 0, jac |-> 0, energy |-> 0]]
    ELSE IF ReadGlobal("C_rad") # "none"
    THEN [err |-> "NameError", zm |-> [n |-> 0, jac |-> 0, energy |-> 0]]
    ELSE [err |-> "none", zm |-> args[2]]

\* The evaluation stubs standing for chemopt.interface.generic.calculate:
\*   "converging":   energies -1.0 then -1.0000000001 Hartree and forces
\*                   whose largest component stays below the tolerance;
\*   "always_fails": every call raises.
CalcModes == {"converging", "always_fails"}

calculate(mode, k, zm) ==
    IF mode = "always_fails"
    THEN [err |-> "EvaluationFailed", scf |-> 0, grads |-> <<>>]
    ELSE [err |-> "none", scf |-> IF k = 1 THEN 0 ELSE -28,
          grads |-> [a \in 1..zm.n |-> <<3, -5, 1>>]]

\* a numpy (n, 3) array as abs(...).max() walks it
RECURSIVE Flatten(_)
Flatten(m) == IF Len(m) = 0 THEN <<>> ELSE Head(m) \o Flatten(Tail(m))

Raise(e) == pc' = "raised" /\ err' = e

OptIdle ==
    /\ pc = "idle"
    /\ err = "none"
    /\ calc_mode = "converging"
    /\ ri = 1
    /\ energies = <<>>
    /\ structures = <<>>
    /\ grads_energy_C = <<>>
    /\ grad_energy_X = None
    /\ new_zm = [n |-> 1, jac |-> 1, energy |-> 0]
    /\ n_evals = 0
    /\ n_steps = 0

\* lines 45-46, one pass of: for filepath in [...]: rename_existing(filepath)
OptRename ==
    /\ pc = "rename"
    /\ LET r == rename_existing(fs, OutPaths[ri])
       IN  /\ fs' = r.fs
           /\ fs_clobbered' = (fs_clobbered \/ r.clobbered)
           /\ IF r.err # "none" THEN Raise(r.err) /\ ri' = ri
              ELSE /\ err' = err
                   /\ ri' = ri + 1
                   /\ pc' = IF ri = Len(OutPaths) THEN "header" ELSE "rename"
    /\ UNCHANGED <<fs_pc, fs_path, fs_before, writes>>
    /\ UNCHANGED <<calc_mode, energies, structures, grads_energy_C,
                   grad_energy_X, new_zm, n_evals, n_steps>>

\* lines 48-56: the header is written to md_out; energies, structures and
\* grads_energy_C start empty, grad_energy_X is None, new_zm is a copy of
\* zmolecule.
\* The caller passes hamiltonian and basis, which _get_header requires.
OptHeader ==
    /\ pc = "header"
    /\ LET r == open_w(fs, md_out, 100 + writes)
       IN  /\ fs' = r.fs
           /\ fs_clobbered' = (fs_clobbered \/ r.clobbered)
           /\ IF r.err # "none" THEN Raise(r.err)
              ELSE pc' = "while" /\ err' = err
    /\ writes' = writes + 1
    /\ energies' = <<>>
    /\ structures' = <<>>
    /\ grads_energy_C' = <<>>
    /\ grad_energy_X' = None
    /\ UNCHANGED <<fs_pc, fs_path, fs_before>>
    /\ UNCHANGED <<calc_mode, ri, new_zm, n_evals, n_steps>>

\* line 57, and on leaving the loop lines 66-74: line 66 reads `calculated`,
\* a name bound nowhere.
OptWhile ==
    /\ pc = "while"
    /\ LET c == is_converged(energies, grad_energy_X, ETol, GTol)
       IN  IF c.err # "none" THEN Raise(c.err) /\ UNCHANGED <<fs, writes>>
           ELSE IF ~c.val THEN pc' = "body" /\ err' = err /\ UNCHANGED <<fs, writes>>
           ELSE IF ReadGlobal("calculated") # "none"
                THEN Raise("NameError") /\ UNCHANGED <<fs, writes>>
           ELSE LET m == open_w(fs, molden_out, 100 + writes)
                    f == open_w(m.fs, md_out, 100 + writes + 1)
                IN  /\ fs' = f.fs
                    /\ writes' = writes + 2
                    /\ pc' = "returned"
                    /\ err' = err
    /\ UNCHANGED <<fs_pc, fs_path, fs_before, fs_clobbered>>
    /\ UNCHANGED <<calc_mode, ri, energies, structures, grads_energy_C,
                   grad_energy_X, new_zm, n_evals, n_steps>>

\* lines 58-64, one pass of the loop body
OptBody ==
    /\ pc = "body"
    /\ LET step == get_new_zm(<<grads_energy_C>>)
       IN  IF step.err # "none"
           THEN /\ Raise(step.err)
                /\ UNCHANGED <<energies, structures, grads_energy_C,
                               grad_energy_X, new_zm, n_evals, n_steps>>
           ELSE LET res == V(step.zm, calculate(calc_mode, n_evals + 1, step.zm))
                    zm == [step.zm EXCEPT !.energy = res.energy]
                IN  /\ n_steps' = n_steps + 1
                    /\ n_evals' = n_evals + 1
                    /\ IF res.err # "none"
                       THEN /\ Raise(res.err)
                            /\ new_zm' = step.zm
                            /\ UNCHANGED <<energies, structures, grads_energy_C,
                                           grad_energy_X>>
                       ELSE /\ new_zm' = zm
                            /\ grad_energy_X' = Array(Flatten(res.grad_energy_X))
                            /\ structures' = Append(structures, zm)
                            /\ energies' = Append(energies, res.energy)
                            /\ IF Len(grads_energy_C) = 0
                               THEN /\ Raise("IndexError")
                                    /\ UNCHANGED grads_energy_C
                               ELSE /\ pc' = "while"
                                    /\ err' = err
                                    /\ grads_energy_C' =
                                         Append(Tail(grads_energy_C),
                                                Flatten(res.grad_energy_C))
    /\ UNCHANGED <<calc_mode, ri>>
    /\ UNCHANGED fs_vars

(***************************************************************************)
(* Specifications.                                                         *)
(***************************************************************************)
\* one run of optimise on a disk earlier runs may have written to
Init ==
    /\ ConvIdle /\ StepIdle /\ VIdle
    /\ fs \in DiskStates
    /\ FsIdle
    /\ pc = "rename"
    /\ err = "none"
    /\ calc_mode \in CalcModes
    /\ ri = 1
    /\ energies = <<>>
    /\ structures = <<>>
    /\ grads_energy_C = <<>>
    /\ grad_energy_X = None
    /\ new_zm \in [n : 1..2, jac : JacIds, energy : {0}]
    /\ n_evals = 0
    /\ n_steps = 0

Next ==
    \/ OptRename /\ UNCHANGED <<conv_vars, step_vars, v_vars>>
    \/ OptHeader /\ UNCHANGED <<conv_vars, step_vars, v_vars>>
    \/ OptWhile /\ UNCHANGED <<conv_vars, step_vars, v_vars>>
    \/ OptBody /\ UNCHANGED <<conv_vars, step_vars, v_vars>>

Spec == Init /\ [][Next]_vars

\* calls of _is_converged on every history and gradient within the bounds
InitConv ==
    /\ c_energies \in ConvEnergies
    /\ c_grad \in ConvGrads
    /\ c_ret = "pending"
    /\ StepIdle /\ VIdle /\ fs = DiskOf([t \in 1..3 |-> {}]) /\ FsIdle /\ OptIdle

NextConv == CallIsConverged /\ UNCHANGED <<step_vars, v_vars, fs_vars, opt_vars>>

SpecConv == InitConv /\ [][NextConv]_vars

\* calls of get_next_step on deques of 0..MaxDeque gradients
InitStep ==
    /\ s_deque \in SeqsUpTo(DequeGrads, 0, MaxDeque)
    /\ s_ret = "pending"
    /\ ConvIdle /\ VIdle /\ fs = DiskOf([t \in 1..3 |-> {}]) /\ FsIdle /\ OptIdle

NextStep == CallGetNextStep /\ UNCHANGED <<conv_vars, v_vars, fs_vars, opt_vars>>

SpecStep == InitStep /\ [][NextStep]_vars

\* calls of V on every molecule and every result of calculate within the bounds
InitV ==
    /\ v_mol \in Molecules
    /\ v_calc \in CalcResults(v_mol.n)
    /\ v_ret = NoVRet("pending")
    /\ ConvIdle /\ StepIdle /\ fs = DiskOf([t \in 1..3 |-> {}]) /\ FsIdle /\ OptIdle

NextV == CallV /\ UNCHANGED <<conv_vars, step_vars, fs_vars, opt_vars>>

SpecV == InitV /\ [][NextV]_vars

\* calls of rename_existing, each followed by the write it protects
InitFs ==
    /\ fs \in DiskStates
    /\ FsIdle
    /\ ConvIdle /\ StepIdle /\ VIdle /\ OptIdle

NextFs ==
    \/ \E t \in 1..3 : FsRename(OutPaths[t]) /\ UNCHANGED <<conv_vars, step_vars, v_vars, opt_vars>>
    \/ FsWrite /\ UNCHANGED <<conv_vars, step_vars, v_vars, opt_vars>>

SpecFs == InitFs /\ [][NextFs]_vars

(***************************************************************************)
(* Properties.                                                             *)
(***************************************************************************)
\* C1: with two or more energies and a gradient array, _is_converged
\* returns True exactly when |energies[-1] - energies[-2]| < etol and every
\* |component| of the gradient is < gtol; a delta equal to etol or a
\* largest component equal to gtol gives False; the energies before the
\* last two do not matter.
C1_ConvergedIffBothStrict ==
    (c_ret # "pending" /\ Len(c_energies) >= 2 /\ c_grad.kind = "array") =>
        LET k == Len(c_energies)
            delta == Abs(c_energies[k] - c_energies[k - 1])
            below == \A i \in 1..Len(c_grad.val) :
                        c_grad.val[i] < GTol /\ -c_grad.val[i] < GTol
            at_gtol == \E i \in 1..Len(c_grad.val) : Abs(c_grad.val[i]) = GTol
        IN  /\ c_ret \in {"True", "False"}
            /\ (c_ret = "True") <=> (delta < ETol /\ below)
            /\ (delta = ETol \/ at_gtol) => c_ret = "False"
            /\ \A es \in ConvEnergies :
                  (Len(es) >= 2 /\ es[Len(es)] = c_energies[k]
                                /\ es[Len(es) - 1] = c_energies[k - 1])
                  => RetStr(is_converged(es, c_grad, ETol, GTol)) = c_ret

\* a call on three energies whose last delta is exactly etol, with a
\* gradient below gtol, has returned False
C1_Witness ==
    /\ c_ret = "False"
    /\ Len(c_energies) = 3
    /\ Abs(c_energies[3] - c_energies[2]) = ETol
    /\ Abs(c_energies[2] - c_energies[1]) < ETol
    /\ c_grad.kind = "array"
    /\ \A i \in 1..Len(c_grad.val) : Abs(c_grad.val[i]) < GTol

\* C2: with 0 or 1 energies _is_converged returns False and raises
\* nothing, whatever the gradient is (None included).
C2_ShortHistoryIsFalse ==
    (c_ret # "pending" /\ Len(c_energies) <= 1) => c_ret = "False"

\* a call on one energy and the gradient None has returned False
C2_Witness ==
    c_ret = "False" /\ Len(c_energies) = 1 /\ c_grad = None

\* C3: get_next_step raises the invalid-length error for a deque whose
\* length is not 2 and, for a deque of exactly 2 gradients, returns a step.
C3_StepGeneratorContract ==
    (s_ret # "pending") =>
        IF Len(s_deque) # 2 THEN s_ret = "ValueError" ELSE s_ret = "step"

\* C4: with the converging stub the run of optimise ends by returning
\* normally after exactly 2 evaluations.
C4_ConvergesAfterTwoEvaluations ==
    (calc_mode = "converging" /\ pc \in {"raised", "returned"}) =>
        (pc = "returned" /\ err = "none" /\ n_evals = 2)

\* C5: with the always-failing stub the run of optimise ends with the
\* evaluation failure, raised by the first and only evaluation, and no step
\* was computed.
C5_EvaluationFailureSurfaced ==
    (calc_mode = "always_fails" /\ pc \in {"raised", "returned"}) =>
        (pc = "raised" /\ err = "EvaluationFailed" /\ n_evals = 1 /\ n_steps = 0)

\* filepath + '_' + i, the numbered backup of the path that was passed in
Suffixed(p, i) == SubSeq(p, 1, Len(p) - 1) \o <<<<p[Len(p)][1], i>>>>

\* C6: after rename_existing(filepath) on an existing filepath the path is
\* free, its former content is at filepath_1, every former backup
\* filepath_i below the first free suffix is at filepath_(i+1) with its
\* content, and no rename had an existing file as destination.
C6_RotationKeepsEveryOutput ==
    (fs_pc = "renamed" /\ exists(fs_before, fs_path)) =>
        LET p == fs_path
            free == CHOOSE i \in 1..(MaxBackups + MaxWrites + 1) :
                       /\ ~exists(fs_before, Suffixed(p, i))
                       /\ \A j \in 1..(i - 1) : exists(fs_before, Suffixed(p, j))
        IN  /\ ~exists(fs, p)
            /\ Suffixed(p, 1) \in DOMAIN fs
            /\ fs[Suffixed(p, 1)] = fs_before[p]
            /\ \A i \in 1..(free - 1) :
                  /\ Suffixed(p, i + 1) \in DOMAIN fs
                  /\ fs[Suffixed(p, i + 1)] = fs_before[Suffixed(p, i)]
            /\ ~fs_clobbered

\* C7: in the internal gradient V returns, entry [i][j] (0-based) is 0 when
\* i < min(3, n) and j >= i and equals the Jacobian contraction otherwise;
\* V does not fail on molecules of fewer than 3 atoms.
C7_GaugeFixing ==
    (v_ret.err # "pending" /\ v_calc.err = "none") =>
        /\ v_ret.err = "none"
        /\ Len(v_ret.grad_energy_C) = v_mol.n
        /\ \A i \in 0..(v_mol.n - 1), j \in 0..2 :
              v_ret.grad_energy_C[i + 1][j + 1] =
                 IF i < Min(3, v_mol.n) /\ j >= i THEN 0
                 ELSE Contract(v_mol, v_ret.grad_energy_X)[i + 1][j + 1]

\* V has returned for a 2-atom molecule whose contraction is non-zero both
\* at a gauge entry (zeroed) and at the bond of atom 1 (kept)
C7_Witness ==
    /\ v_ret.err = "none"
    /\ v_mol.n = 2
    /\ Contract(v_mol, v_ret.grad_energy_X)[1][1] # 0
    /\ v_ret.grad_energy_C[1][1] = 0
    /\ Contract(v_mol, v_ret.grad_energy_X)[2][2] # 0
    /\ v_ret.grad_energy_C[2][2] = 0
    /\ v_ret.grad_energy_C[2][1] # 0

\* C8: whenever the driver loop is about to call the step generator, and
\* from the start of the loop on, the gradient history holds two entries.
C8_HistoryHoldsTwo ==
    (pc \in {"while", "body"}) => Len(grads_energy_C) = 2

\* C9: a pass of the loop body computes exactly one step and then makes
\* exactly one evaluation; the driver returns only from a convergence check
\* that is true, and a true check makes it return.
C9_DriverOrdering ==
    [][ /\ (pc = "body" /\ pc' # pc) =>
              (n_steps' = n_steps + 1 /\ n_evals' = n_evals + 1)
        /\ (pc' = "returned" /\ pc # "returned") =>
              (pc = "while"
               /\ RetStr(is_converged(energies, grad_energy_X, ETol, GTol)) = "True")
        /\ (pc = "while"
            /\ RetStr(is_converged(energies, grad_energy_X, ETol, GTol)) = "True")
              => pc' = "returned" ]_vars

\* C10: a pass of the loop body whose evaluation succeeds appends one
\* energy and one structure, keeps the earlier ones, and leaves the
\* gradient history as [previous, current], previous being the zero seed
\* on the first pass.
C10_HistoriesGrow ==
    [][ (pc = "body" /\ pc' # pc /\ calc_mode = "converging") =>
          LET k == Len(energies)
              cur == V(new_zm', calculate(calc_mode, k + 1, new_zm'))
          IN  /\ Len(energies') = k + 1
              /\ Len(structures') = k + 1
              /\ SubSeq(energies', 1, k) = energies
              /\ SubSeq(structures', 1, k) = structures
              /\ Len(grads_energy_C') = 2
              /\ grads_energy_C'[2] = Flatten(cur.grad_energy_C)
              /\ grads_energy_C'[1] =
                    IF k = 0 THEN [i \in 1..(3 * new_zm.n) |-> 0]
                    ELSE grads_energy_C[2] ]_vars

====
